---- MODULE Spec2Model ----
(***************************************************************************)
(* A model of the dotfiles repo manager (src/main.go, and the earlier      *)
(* variant of the same program kept as src/unnamed/part_000).              *)
(*                                                                         *)
(* Strings are sequences of one-character strings, so that the path and    *)
(* name conversions of the program (filepath.Base, filepath.Ext,           *)
(* filepath.Join, filepath.Abs, strings.TrimPrefix, strings.TrimSuffix)    *)
(* are computed character by character, as the Go code computes them.      *)
(*                                                                         *)
(* Every command is one process invocation, modelled as one action.  The   *)
(* version-control library, the SSH agent and the file system are the      *)
(* environment: where their outcome is not decided by the state modelled   *)
(* here, it is an input of the action.                                     *)
(***************************************************************************)
EXTENDS Integers, Sequences, FiniteSets, TLC

\* ------------------------------------------------------------------ bounds

\* Local commits the bare repositories can accumulate between them.
MaxCommits == 1

\* ----------------------------------------------------------------- strings

Sep == "/"

Dot == "."

GitSuffix == <<".", "g", "i", "t">>

\* The characters used, in byte order (sort order of directory listings).
Chars == <<".", "/", "2", ":", "a", "b", "c", "d", "e", "f", "g", "h", "i",
           "k", "l", "o", "p", "r", "s", "t", "u", "w", "x", "z">>

Code(c) == CHOOSE i \in 1..Len(Chars) : Chars[i] = c

\* Go's string comparison a < b, byte by byte.
RECURSIVE StrLess(_, _)
StrLess(a, b) ==
    IF b = <<>> THEN FALSE
    ELSE IF a = <<>> THEN TRUE
    ELSE IF Head(a) = Head(b) THEN StrLess(Tail(a), Tail(b))
    ELSE Code(Head(a)) < Code(Head(b))

HasPrefix(s, p) == Len(s) >= Len(p) /\ SubSeq(s, 1, Len(p)) = p

HasSuffix(s, p) == Len(s) >= Len(p) /\ SubSeq(s, Len(s) - Len(p) + 1, Len(s)) = p

TrimPrefix(s, p) == IF HasPrefix(s, p) THEN SubSeq(s, Len(p) + 1, Len(s)) ELSE s

TrimSuffix(s, p) == IF HasSuffix(s, p) THEN SubSeq(s, 1, Len(s) - Len(p)) ELSE s

\* The index of the last separator of s, 0 if there is none.
RECURSIVE LastSep(_, _)
LastSep(s, i) ==
    IF i = 0 THEN 0
    ELSE IF s[i] = Sep THEN i
    ELSE LastSep(s, i - 1)

RECURSIVE StripTrailingSeps(_)
StripTrailingSeps(s) ==
    IF s # <<>> /\ s[Len(s)] = Sep THEN StripTrailingSeps(SubSeq(s, 1, Len(s) - 1))
    ELSE s

\* filepath.Base: the last element of the path, trailing separators removed
\* first; "." for the empty path, "/" for a path of separators only.
Base(path) ==
    IF path = <<>> THEN <<Dot>>
    ELSE LET p == StripTrailingSeps(path)
             q == SubSeq(p, LastSep(p, Len(p)) + 1, Len(p))
         IN  IF q = <<>> THEN <<Sep>> ELSE q

\* filepath.Ext: the suffix beginning at the final dot of the final element.
RECURSIVE ExtFrom(_, _)
ExtFrom(path, i) ==
    IF i = 0 \/ path[i] = Sep THEN <<>>
    ELSE IF path[i] = Dot THEN SubSeq(path, i, Len(path))
    ELSE ExtFrom(path, i - 1)

Ext(path) == ExtFrom(path, Len(path))

\* The elements of a path between separators (empty elements included).
RECURSIVE SplitSep(_, _)
SplitSep(s, cur) ==
    IF s = <<>> THEN <<cur>>
    ELSE IF Head(s) = Sep THEN <<cur>> \o SplitSep(Tail(s), <<>>)
    ELSE SplitSep(Tail(s), Append(cur, Head(s)))

RECURSIVE JoinSep(_)
JoinSep(elems) ==
    IF elems = <<>> THEN <<>>
    ELSE IF Len(elems) = 1 THEN elems[1]
    ELSE elems[1] \o <<Sep>> \o JoinSep(Tail(elems))

\* The element stack of filepath.Clean: "" and "." dropped, ".." removing the
\* element before it (dropped at the root, kept at the start of a relative
\* path).
RECURSIVE CleanElems(_, _, _)
CleanElems(elems, stack, rooted) ==
    IF elems = <<>> THEN stack
    ELSE LET e == Head(elems)
             rest == Tail(elems)
         IN  IF e = <<>> \/ e = <<Dot>> THEN CleanElems(rest, stack, rooted)
             ELSE IF e = <<Dot, Dot>>
             THEN IF stack # <<>> /\ stack[Len(stack)] # <<Dot, Dot>>
                  THEN CleanElems(rest, SubSeq(stack, 1, Len(stack) - 1), rooted)
                  ELSE IF rooted THEN CleanElems(rest, stack, rooted)
                  ELSE CleanElems(rest, Append(stack, e), rooted)
             ELSE CleanElems(rest, Append(stack, e), rooted)

IsAbs(path) == path # <<>> /\ path[1] = Sep

\* filepath.Clean.
Clean(path) ==
    LET rooted == IsAbs(path)
        body == JoinSep(CleanElems(SplitSep(path, <<>>), <<>>, rooted))
        out == IF rooted THEN <<Sep>> \o body ELSE body
    IN  IF out = <<>> THEN <<Dot>> ELSE out

\* filepath.Join of two elements: empty elements ignored, the rest joined by
\* a separator and cleaned.
Join(a, b) ==
    IF a = <<>> /\ b = <<>> THEN <<>>
    ELSE IF a = <<>> THEN Clean(b)
    ELSE IF b = <<>> THEN Clean(a)
    ELSE Clean(a \o <<Sep>> \o b)

\* filepath.Abs in a process whose working directory is cwd.
Abs(cwd, path) == IF IsAbs(path) THEN Clean(path) ELSE Join(cwd, path)


\* ------------------------------------------------- configuration and inputs

dotfilesBasedir == <<".", "/", "d", "o", "t", "f", "i", "l", "e", "s">>

dotfilesWorkdir == <<".", "/", "w", "o", "r", "k", "d", "i", "r">>

\* Remote URLs given to init: with and without the .git suffix, with a second
\* dot in the name, and with a trailing separator.
RepoUrls == { <<"h", ":", "u", "/", "a", ".", "g", "i", "t">>,
              <<"h", ":", "u", "/", "b", ".", "c", ".", "g", "i", "t">>,
              <<"h", ":", "u", "/", "a">>,
              <<"h", ":", "u", "/", "a", ".", "g", "i", "t", "/">> }

\* Repo names given to pull, add, save and status.
RepoNames == { <<"a">>, <<"b", ".", "c">>, <<"a", ".", "g", "i", "t">> }

\* Working directories of the process.
Cwds == { <<"/", "h">>, <<"/">> }

\* Paths, relative to the working-directory root, of files the user may
\* create in the working directory.
WtPaths == { <<"f">>, <<"2", "/", "x">> }

\* "workdir": the working directory as the user spells it from the
\* process's directory.
WorkdirName == <<"w", "o", "r", "k", "d", "i", "r">>

\* The spellings of a file inside the working directory, whose path relative
\* to the working-directory root is rel, for a process running in cwd:
\* relative, relative with a dot element, relative through ".." and a doubled
\* separator, and absolute.
InsideSpellings(cwd, rel) ==
    { WorkdirName \o <<Sep>> \o rel,
      <<Dot, Sep>> \o WorkdirName \o <<Sep>> \o rel,
      WorkdirName \o <<Sep, Dot, Dot, Sep>> \o WorkdirName \o <<Sep, Sep>> \o rel,
      Join(cwd, WorkdirName) \o <<Sep>> \o rel }

\* Files that exist outside the working directory: in a sibling directory
\* whose name starts with the working directory's name (workdir2/x), in the
\* process's directory itself (x), and elsewhere (/e/f).
OutsideSpellings ==
    { WorkdirName \o <<"2", Sep, "x">>, <<"x">>, <<Sep, "e", Sep, "f">> }

\* The file arguments of add: inside says where the file really is, and rel
\* is its path relative to the working-directory root when it is inside.
AddFiles(cwd) ==
    { [file |-> f, inside |-> FALSE, rel |-> <<>>] : f \in OutsideSpellings }
    \cup UNION { { [file |-> f, inside |-> TRUE, rel |-> rel] :
                     f \in InsideSpellings(cwd, rel) } : rel \in WtPaths }

\* Author identities found in the environment (GIT_AUTHOR_NAME,
\* GIT_AUTHOR_EMAIL): each variable unset or set.
AuthorEnvs == [name : {<<>>, <<"u">>}, email : {<<>>, <<"u", ":", "h">>}]

\* ----------------------------------------------------------------- results

OK == "nil"

ErrRepositoryNotExists == "repository not exists"

ErrRepositoryAlreadyExists == "repository already exists"

ErrAuthor == "GIT_AUTHOR_NAME and GIT_AUTHOR_EMAIL envionment variables must exist."

ErrNotImplemented == "verbose listing not implemented."

ErrReadDir == "open ./dotfiles: no such file or directory"

ErrAgent == "ssh agent: error"

ErrClone == "clone: error"

ErrCheckout == "checkout: error"

ErrPull == "pull: error"

ErrAddPath == "add: file does not exist in the worktree"

ErrCommit == "commit: error"

ErrPush == "push: error"

ErrStatus == "status: error"

\* ------------------------------------------------------------------- state

VARIABLES
    baseExists, \* whether ./dotfiles exists
    bare,       \* the paths of the bare repositories on disk
    wtRepo,     \* the bare repository whose tree was last checked out into
                \* ./workdir (<<>>: none yet)
    wtFiles,    \* paths (relative to ./workdir) of the files the user created there
    staged,     \* per bare repository, the paths in its staging index
    commits,    \* per bare repository, the local commits made by save
    pushed,     \* per bare repository, how many of them the remote has
    last,       \* the process invocation that just ended
    pre,        \* the disk as that invocation found it
    anyFailed   \* whether some invocation so far ended with a status other than 0

disk == <<baseExists, bare, wtRepo, wtFiles, staged, commits, pushed>>

vars == <<baseExists, bare, wtRepo, wtFiles, staged, commits, pushed, last, pre,
          anyFailed>>

\* Every path init can create a bare repository at.
RepoPaths == { Join(dotfilesBasedir, Base(u)) : u \in RepoUrls }

NoRepo == <<>>

Disk ==
    [ baseExists |-> baseExists, bare |-> bare, wtRepo |-> wtRepo,
      wtFiles |-> wtFiles, staged |-> staged, commits |-> commits,
      pushed |-> pushed ]

\* The record of an invocation: the command and its repo (or URL) argument,
\* for add where the file really is (inside ./workdir, at rel below its
\* root), for save the author found in the environment, the steps the
\* handler ran (the failing one last), the repository path it resolved, the
\* path add staged, the repo names status went through, the lines list
\* printed, the error the handler returned and how the process ended.
NoCmd ==
    [ cmd |-> "none", variant |-> "main.go", arg |-> <<>>,
      inside |-> FALSE, rel |-> <<>>,
      author |-> [name |-> <<>>, email |-> <<>>],
      dispatched |-> FALSE, steps |-> <<>>, path |-> NoRepo,
      addPath |-> <<>>, names |-> <<>>, out |-> <<>>,
      err |-> OK, panicked |-> FALSE, exit |-> 0, errTo |-> "none" ]

Init ==
    /\ baseExists = FALSE
    /\ bare = {}
    /\ wtRepo = NoRepo
    /\ wtFiles = {}
    /\ staged = [p \in RepoPaths |-> {}]
    /\ commits = [p \in RepoPaths |-> 0]
    /\ pushed = [p \in RepoPaths |-> 0]
    /\ last = NoCmd
    /\ pre = Disk
    /\ anyFailed = FALSE

\* ------------------------------------------------------------ the handlers

\* Each handler yields the disk it leaves (d) and the record of its run (r).

\* (variant for C1: opening a repo checks its tree out into ./workdir)
BindWorktreeCheckout(cur, repoPath) == repoPath

\* git.Open(repoStorer, workingFs) in openWorkingRepo binds the bare store to
\* ./workdir; it checks nothing out, so the tree in ./workdir stays the one
\* that was there.
BindWorktree(cur, repoPath) == cur

\* (variant for C4: the store is opened without looking for a repository in it)
openWorkingRepoUnchecked(repoName) ==
    LET repoPath == Join(dotfilesBasedir, repoName \o GitSuffix)
    IN  [ path |-> repoPath, err |-> OK, wtRepo |-> wtRepo ]

\* openWorkingRepo: basedir/<repoName>.git, opened against ./workdir.  The
\* library's Open fails when the store holds no repository.
openWorkingRepo(repoName) ==
    LET repoPath == Join(dotfilesBasedir, repoName \o GitSuffix)
    IN  [ path |-> repoPath,
          err |-> IF repoPath \in bare THEN OK ELSE ErrRepositoryNotExists,
          wtRepo |-> BindWorktree(wtRepo, repoPath) ]

\* (variant for C2: the name is the final segment with its ".git" removed)
baseNameStem(repoUrl) == TrimSuffix(Base(repoUrl), GitSuffix)

baseName(repoUrl) == Base(repoUrl)

\* (variant for C3: only the name is validated)
getAuthorNameOnly(env) ==
    [ sig |-> env, err |-> IF env.name = <<>> THEN ErrAuthor ELSE OK ]

\* getAuthor: the signature from the environment, an error when either
\* variable is empty.
getAuthor(env) ==
    [ sig |-> env,
      err |-> IF env.name = <<>> \/ env.email = <<>> THEN ErrAuthor ELSE OK ]

\* getAuthMethod: the SSH agent lookup; agentOK is the agent's answer.
getAuthMethod(agentOK) == IF agentOK THEN OK ELSE ErrAgent

\* executeInit.  fail names the step the environment fails ("none", "agent",
\* "clone", "checkout").
executeInit(repoUrl, fail) ==
    LET name == baseName(repoUrl)
        basePath == Join(dotfilesBasedir, name)
        r0 == [NoCmd EXCEPT !.cmd = "init", !.dispatched = TRUE,
                            !.arg = repoUrl, !.path = basePath]
        cloned == [Disk EXCEPT !.baseExists = TRUE, !.bare = bare \cup {basePath}]
    IN  IF getAuthMethod(fail # "agent") # OK
        THEN [ d |-> Disk,
               r |-> [r0 EXCEPT !.err = ErrAgent,
                                !.steps = <<"baseName", "auth">>] ]
        ELSE IF basePath \in bare \/ fail = "clone"
        THEN [ d |-> Disk,
               r |-> [r0 EXCEPT !.err = IF basePath \in bare
                                        THEN ErrRepositoryAlreadyExists
                                        ELSE ErrClone,
                                !.steps = <<"baseName", "auth", "clone">>] ]
        ELSE IF fail = "checkout"
        THEN [ d |-> cloned,
               r |-> [r0 EXCEPT !.err = ErrCheckout,
                                !.steps = <<"baseName", "auth", "clone", "open",
                                            "worktree", "checkout">>] ]
        ELSE [ d |-> [cloned EXCEPT !.wtRepo = basePath],
               r |-> [r0 EXCEPT !.steps = <<"baseName", "auth", "clone", "open",
                                            "worktree", "checkout">>] ]

\* ioutil.ReadDir(dotfilesBasedir): the entry names, sorted by name.
RECURSIVE SortedNames(_)
SortedNames(S) ==
    IF S = {} THEN <<>>
    ELSE LET m == CHOOSE x \in S : \A y \in S \ {x} : StrLess(x, y)
         IN  <<m>> \o SortedNames(S \ {m})

ReadDir == SortedNames({ Base(p) : p \in bare })

\* (variant for C8: a repo that fails is skipped and the loop goes on)
RECURSIVE statusLoopSkip(_, _, _, _)
statusLoopSkip(repoNames, i, failAt, acc) ==
    IF i > Len(repoNames) THEN acc
    ELSE LET repoPath == Join(dotfilesBasedir, repoNames[i] \o GitSuffix)
             failed == repoPath \notin bare \/ failAt = i
         IN  statusLoopSkip(repoNames, i + 1, failAt,
                 [acc EXCEPT !.names = Append(@, repoNames[i]),
                             !.path = repoPath,
                             !.err = IF failed /\ acc.err = OK
                                     THEN (IF repoPath \notin bare
                                           THEN ErrRepositoryNotExists
                                           ELSE ErrStatus)
                                     ELSE acc.err,
                             !.steps = @ \o <<"open", "worktree", "status">>])

\* The loop of executeStatus over repoNames from index i on: the header of a
\* repo is printed before it is opened, and the first error ends the loop.
\* failAt is the index of the repo whose worktree status lookup fails (0: none).
RECURSIVE statusLoop(_, _, _, _)
statusLoop(repoNames, i, failAt, acc) ==
    IF i > Len(repoNames) THEN acc
    ELSE LET o == openWorkingRepo(repoNames[i])
             seen == [acc EXCEPT !.names = Append(@, repoNames[i]),
                                 !.path = o.path]
         IN  IF o.err # OK
             THEN [seen EXCEPT !.err = o.err, !.steps = Append(@, "open")]
             ELSE IF failAt = i
             THEN [seen EXCEPT !.err = ErrStatus, !.wtRepo = o.wtRepo,
                               !.steps = @ \o <<"open", "worktree", "status">>]
             ELSE statusLoop(repoNames, i + 1, failAt,
                             [seen EXCEPT !.wtRepo = o.wtRepo,
                                          !.steps = @ \o <<"open", "worktree",
                                                           "status">>])

\* executeStatus of main.go: with no repo name, every entry of the base
\* directory, its name with a trailing ".git" removed.
executeStatus(repoName, failAt) ==
    LET r0 == [NoCmd EXCEPT !.cmd = "status", !.dispatched = TRUE, !.arg = repoName]
        entries == ReadDir
        repoNames == IF repoName = <<>>
                     THEN [i \in 1..Len(entries) |-> TrimSuffix(entries[i], GitSuffix)]
                     ELSE <<repoName>>
        run == statusLoop(repoNames, 1, failAt,
                          [names |-> <<>>, path |-> NoRepo, err |-> OK,
                           wtRepo |-> wtRepo, steps |-> <<>>])
    IN  IF repoName = <<>> /\ ~baseExists
        THEN [ d |-> Disk,
               r |-> [r0 EXCEPT !.err = ErrReadDir, !.steps = <<"readdir">>] ]
        ELSE [ d |-> [Disk EXCEPT !.wtRepo = run.wtRepo],
               r |-> [r0 EXCEPT !.err = run.err, !.names = run.names,
                                !.path = run.path,
                                !.steps = (IF repoName = <<>> THEN <<"readdir">>
                                           ELSE <<>>) \o run.steps] ]

\* executeStatus of the earlier variant: one repo, and a failed status lookup
\* panics instead of returning the error.
executeStatusOld(repoName, statusOK) ==
    LET r0 == [NoCmd EXCEPT !.cmd = "status", !.variant = "part_000",
                            !.dispatched = TRUE, !.arg = repoName]
        o == openWorkingRepo(repoName)
    IN  IF o.err # OK
        THEN [ d |-> Disk,
               r |-> [r0 EXCEPT !.err = o.err, !.path = o.path,
                                !.steps = <<"open">>] ]
        ELSE [ d |-> [Disk EXCEPT !.wtRepo = o.wtRepo],
               r |-> [r0 EXCEPT !.path = o.path, !.names = <<repoName>>,
                                !.err = IF statusOK THEN OK ELSE ErrStatus,
                                !.panicked = ~statusOK,
                                !.steps = <<"open", "worktree", "status">>] ]

\* (variant for C7: the separator left in front is not trimmed)
addPathKeepSep(cwd, addfile) ==
    TrimPrefix(Abs(cwd, addfile), Abs(cwd, dotfilesWorkdir))

\* The path executeAdd stages: the absolute file path with the absolute
\* working-directory path trimmed from its front, then one separator.
addPath(cwd, addfile) ==
    LET absSrc == Abs(cwd, addfile)
        absDst == Abs(cwd, dotfilesWorkdir)
    IN  TrimPrefix(TrimPrefix(absSrc, absDst), <<Sep>>)

\* executeAdd.  The library's Add stages a path that names a file of the
\* worktree and fails on any other.
executeAdd(repoName, cwd, f) ==
    LET r0 == [NoCmd EXCEPT !.cmd = "add", !.dispatched = TRUE, !.arg = repoName,
                            !.inside = f.inside, !.rel = f.rel]
        o == openWorkingRepo(repoName)
        path == addPath(cwd, f.file)
        bound == [Disk EXCEPT !.wtRepo = o.wtRepo]
    IN  IF o.err # OK
        THEN [ d |-> Disk,
               r |-> [r0 EXCEPT !.err = o.err, !.path = o.path,
                                !.steps = <<"open">>] ]
        ELSE IF path \notin wtFiles
        THEN [ d |-> bound,
               r |-> [r0 EXCEPT !.err = ErrAddPath, !.path = o.path,
                                !.addPath = path,
                                !.steps = <<"open", "worktree", "add">>] ]
        ELSE [ d |-> [bound EXCEPT !.staged[o.path] = @ \cup {path}],
               r |-> [r0 EXCEPT !.path = o.path, !.addPath = path,
                                !.steps = <<"open", "worktree", "add">>] ]

\* (variant for C9: everything from the first dot on is removed)
RECURSIVE listLineFirstDot(_)
listLineFirstDot(name) ==
    IF name = <<>> \/ Head(name) = Dot THEN <<>>
    ELSE <<Head(name)>> \o listLineFirstDot(Tail(name))

\* The line executeList prints for an entry: its name without its extension.
listLine(name) == TrimSuffix(name, Ext(name))

\* executeList: the verbose listing is refused before anything is read.
executeList(verbose) ==
    LET r0 == [NoCmd EXCEPT !.cmd = "list", !.dispatched = TRUE,
                            !.arg = IF verbose THEN <<"v">> ELSE <<>>]
        entries == ReadDir
    IN  IF verbose
        THEN [ d |-> Disk, r |-> [r0 EXCEPT !.err = ErrNotImplemented] ]
        ELSE IF ~baseExists
        THEN [ d |-> Disk,
               r |-> [r0 EXCEPT !.err = ErrReadDir, !.steps = <<"readdir">>] ]
        ELSE [ d |-> Disk,
               r |-> [r0 EXCEPT !.steps = <<"readdir">>,
                                !.names = entries,
                                !.out = [i \in 1..Len(entries) |->
                                           listLine(entries[i])]] ]

\* executePull.  fail: "none", "agent" or "pull".  The library's Pull, when it
\* succeeds, ends by checking the fetched head out into the worktree.
executePull(repoName, fail) ==
    LET r0 == [NoCmd EXCEPT !.cmd = "pull", !.dispatched = TRUE, !.arg = repoName]
        o == openWorkingRepo(repoName)
        bound == [Disk EXCEPT !.wtRepo = o.wtRepo]
    IN  IF o.err # OK
        THEN [ d |-> Disk,
               r |-> [r0 EXCEPT !.err = o.err, !.path = o.path,
                                !.steps = <<"open">>] ]
        ELSE IF getAuthMethod(fail # "agent") # OK
        THEN [ d |-> bound,
               r |-> [r0 EXCEPT !.err = ErrAgent, !.path = o.path,
                                !.steps = <<"open", "auth">>] ]
        ELSE IF fail = "pull"
        THEN [ d |-> bound,
               r |-> [r0 EXCEPT !.err = ErrPull, !.path = o.path,
                                !.steps = <<"open", "auth", "pull">>] ]
        ELSE [ d |-> [bound EXCEPT !.wtRepo = o.path],
               r |-> [r0 EXCEPT !.path = o.path,
                                !.steps = <<"open", "auth", "pull">>] ]

\* (variant for C10: the credential is resolved before the commit is made)
executeSaveAuthFirst(repoName, env, fail) ==
    LET r0 == [NoCmd EXCEPT !.cmd = "save", !.dispatched = TRUE, !.arg = repoName,
                            !.author = env]
        o == openWorkingRepo(repoName)
        author == getAuthor(env)
        r1 == [r0 EXCEPT !.path = o.path]
        bound == [Disk EXCEPT !.wtRepo = o.wtRepo]
        committed == [bound EXCEPT !.commits[o.path] = @ + 1,
                                   !.staged[o.path] = {}]
    IN  IF o.err # OK
        THEN [ d |-> Disk, r |-> [r1 EXCEPT !.err = o.err, !.steps = <<"open">>] ]
        ELSE IF author.err # OK
        THEN [ d |-> bound,
               r |-> [r1 EXCEPT !.err = author.err,
                                !.steps = <<"open", "worktree", "author">>] ]
        ELSE IF getAuthMethod(fail # "agent") # OK
        THEN [ d |-> bound,
               r |-> [r1 EXCEPT !.err = ErrAgent,
                                !.steps = <<"open", "worktree", "author", "auth">>] ]
        ELSE IF fail = "commit"
        THEN [ d |-> bound,
               r |-> [r1 EXCEPT !.err = ErrCommit,
                                !.steps = <<"open", "worktree", "author", "auth",
                                            "commit">>] ]
        ELSE IF fail = "push"
        THEN [ d |-> committed,
               r |-> [r1 EXCEPT !.err = ErrPush,
                                !.steps = <<"open", "worktree", "author", "auth",
                                            "commit", "push">>] ]
        ELSE [ d |-> [committed EXCEPT !.pushed[o.path] = committed.commits[o.path]],
               r |-> [r1 EXCEPT !.steps = <<"open", "worktree", "author", "auth",
                                            "commit", "push">>] ]

\* executeSave.  fail: "none", "commit", "agent" or "push".  The commit takes
\* the staging index into the history; the push brings the remote up to it.
executeSave(repoName, env, fail) ==
    LET r0 == [NoCmd EXCEPT !.cmd = "save", !.dispatched = TRUE, !.arg = repoName,
                            !.author = env]
        o == openWorkingRepo(repoName)
        author == getAuthor(env)
        r1 == [r0 EXCEPT !.path = o.path]
        bound == [Disk EXCEPT !.wtRepo = o.wtRepo]
        committed == [bound EXCEPT !.commits[o.path] = @ + 1,
                                   !.staged[o.path] = {}]
    IN  IF o.err # OK
        THEN [ d |-> Disk, r |-> [r1 EXCEPT !.err = o.err, !.steps = <<"open">>] ]
        ELSE IF author.err # OK
        THEN [ d |-> bound,
               r |-> [r1 EXCEPT !.err = author.err,
                                !.steps = <<"open", "worktree", "author">>] ]
        ELSE IF fail = "commit"
        THEN [ d |-> bound,
               r |-> [r1 EXCEPT !.err = ErrCommit,
                                !.steps = <<"open", "worktree", "author",
                                            "commit">>] ]
        ELSE IF getAuthMethod(fail # "agent") # OK
        THEN [ d |-> committed,
               r |-> [r1 EXCEPT !.err = ErrAgent,
                                !.steps = <<"open", "worktree", "author",
                                            "commit", "auth">>] ]
        ELSE IF fail = "push"
        THEN [ d |-> committed,
               r |-> [r1 EXCEPT !.err = ErrPush,
                                !.steps = <<"open", "worktree", "author",
                                            "commit", "auth", "push">>] ]
        ELSE [ d |-> [committed EXCEPT !.pushed[o.path] = committed.commits[o.path]],
               r |-> [r1 EXCEPT !.steps = <<"open", "worktree", "author",
                                            "commit", "auth", "push">>] ]

\* A command main's switch has no case for: no handler runs and cmdErr stays
\* nil.
noCase(cmd, variant) ==
    [ d |-> Disk, r |-> [NoCmd EXCEPT !.cmd = cmd, !.variant = variant] ]

\* The commands each main declares and has no case for.
Undispatched ==
    { <<"undo", "main.go">>, <<"undo", "part_000">>, <<"pull", "part_000">>,
      <<"push", "part_000">> }

\* The end of main: the error is printed to standard output and the process
\* exits 1; with no error it exits 0.  A panic ends the process with the Go
\* runtime's status 2 and its message on standard error.
main(r) ==
    [r EXCEPT !.exit = IF r.panicked THEN 2 ELSE IF r.err # OK THEN 1 ELSE 0,
              !.errTo = IF r.panicked THEN "stderr"
                        ELSE IF r.err # OK THEN "stdout" ELSE "none"]

\* ----------------------------------------------------------------- actions

RECURSIVE SumOver(_, _)
SumOver(f, S) ==
    IF S = {} THEN 0
    ELSE LET x == CHOOSE y \in S : TRUE IN f[x] + SumOver(f, S \ {x})

TotalCommits(c) == SumOver(c, DOMAIN c)

\* One process invocation, started when the record of the one before it has
\* been put away: the handler's result becomes the disk, and the disk it found
\* is kept beside its record.
Idle == last.cmd = "none"

Run(res) ==
    /\ Idle
    /\ baseExists' = res.d.baseExists
    /\ bare' = res.d.bare
    /\ wtRepo' = res.d.wtRepo
    /\ wtFiles' = res.d.wtFiles
    /\ staged' = res.d.staged
    /\ commits' = res.d.commits
    /\ pushed' = res.d.pushed
    /\ last' = main(res.r)
    /\ pre' = Disk
    /\ anyFailed' = (anyFailed \/ main(res.r).exit # 0)

CmdInit ==
    \E repoUrl \in RepoUrls, fail \in {"none", "agent", "clone", "checkout"} :
        Run(executeInit(repoUrl, fail))

CmdStatus ==
    \E repoName \in RepoNames \cup {<<>>}, failAt \in 0..Cardinality(RepoPaths) :
        /\ failAt <= (IF repoName = <<>> THEN Cardinality(bare) ELSE 1)
        /\ Run(executeStatus(repoName, failAt))

CmdStatusOld ==
    \E repoName \in RepoNames, statusOK \in BOOLEAN :
        Run(executeStatusOld(repoName, statusOK))

CmdAdd ==
    \E repoName \in RepoNames, cwd \in Cwds :
        \E f \in AddFiles(cwd) :
            /\ Idle
            /\ f.inside => f.rel \in wtFiles
            /\ Run(executeAdd(repoName, cwd, f))

CmdList ==
    \E verbose \in BOOLEAN : Run(executeList(verbose))

CmdPull ==
    \E repoName \in RepoNames, fail \in {"none", "agent", "pull"} :
        Run(executePull(repoName, fail))

CmdSave ==
    \E repoName \in RepoNames, env \in AuthorEnvs,
       fail \in {"none", "commit", "agent", "push"} :
        LET res == executeSave(repoName, env, fail)
        IN  /\ Idle
            /\ TotalCommits(res.d.commits) <= MaxCommits
            /\ Run(res)

CmdNoCase ==
    \E c \in Undispatched : Run(noCase(c[1], c[2]))

\* The user creates a file in ./workdir between two invocations.
Touch ==
    \E p \in WtPaths :
        /\ Idle
        /\ p \notin wtFiles
        /\ wtFiles' = wtFiles \cup {p}
        /\ pre' = [Disk EXCEPT !.wtFiles = wtFiles \cup {p}]
        /\ UNCHANGED <<baseExists, bare, wtRepo, staged, commits, pushed, last,
                       anyFailed>>

\* The shell is back at its prompt: the record of the invocation is put away.
Prompt ==
    /\ ~Idle
    /\ last' = NoCmd
    /\ pre' = Disk
    /\ UNCHANGED <<disk, anyFailed>>

Next ==
    \/ CmdInit
    \/ CmdStatus
    \/ CmdStatusOld
    \/ CmdAdd
    \/ CmdList
    \/ CmdPull
    \/ CmdSave
    \/ CmdNoCase
    \/ Touch
    \/ Prompt

Spec == Init /\ [][Next]_vars

\* ------------------------------------------------------------- properties

\* The path a command given repoName resolves.
RepoPathOf(repoName) == Join(dotfilesBasedir, repoName \o GitSuffix)

IsPrefixOf(a, b) == Len(a) <= Len(b) /\ SubSeq(b, 1, Len(a)) = a

HasDot(s) == \E i \in 1..Len(s) : s[i] = Dot

\* The names status goes through when given no repo name: every entry of the
\* base directory in reading order, a trailing ".git" removed.
EntryNames == [i \in 1..Len(ReadDir) |-> TrimSuffix(ReadDir[i], GitSuffix)]

\* A command that opens a repo by name has ended.
OpensRepo == last.dispatched /\ last.cmd \in {"pull", "add", "save", "status"}

\* C1, as stated: after a sequence of successful commands, the last of them
\* an init, pull, add, save or status, the working directory holds the tree
\* of the repository that command opened.
C1_WorkdirHoldsLastOpened ==
    ( /\ ~anyFailed
      /\ last.dispatched
      /\ last.cmd \in {"init", "pull", "add", "save", "status"}
      /\ last.exit = 0
      /\ last.path # NoRepo )
    => wtRepo = last.path

\* C1, amended: a successful init leaves the tree of the repository it cloned
\* in the working directory; add, save and status leave in it the tree that
\* was there, whichever repository they open.
C1_OnlyInitChecksOut ==
    /\ (last.cmd = "init" /\ last.exit = 0) => wtRepo = last.path
    /\ (last.dispatched /\ last.cmd \in {"add", "save", "status"})
         => wtRepo = pre.wtRepo

\* No command has failed, and add has staged a file in a repository other
\* than the one checked out.
C1_Witness ==
    /\ ~anyFailed
    /\ last.cmd = "add"
    /\ last.exit = 0
    /\ wtRepo # NoRepo
    /\ last.path # wtRepo

\* C2, as stated: the repository a successful init created is the one the
\* other commands resolve when given init's derived name (the URL's final
\* path segment) verbatim.
C2_FoundUnderDerivedName ==
    (last.cmd = "init" /\ last.exit = 0)
    => /\ RepoPathOf(Base(last.arg)) = last.path
       /\ openWorkingRepo(Base(last.arg)).err = OK

\* C2, amended: when the URL's final path segment is <name>.git with <name>
\* not empty, the repository a successful init created is the one the other
\* commands resolve when given <name>.
C2_FoundUnderStem ==
    ( /\ last.cmd = "init"
      /\ last.exit = 0
      /\ HasSuffix(Base(last.arg), GitSuffix)
      /\ Base(last.arg) # GitSuffix )
    => /\ RepoPathOf(TrimSuffix(Base(last.arg), GitSuffix)) = last.path
       /\ last.path \in bare
       /\ openWorkingRepo(TrimSuffix(Base(last.arg), GitSuffix)).err = OK

\* init succeeded on a URL that ends in a separator after its .git segment.
C2_Witness ==
    /\ last.cmd = "init"
    /\ last.exit = 0
    /\ last.arg[Len(last.arg)] = Sep
    /\ HasSuffix(Base(last.arg), GitSuffix)

EmptyAuthor == last.author.name = <<>> \/ last.author.email = <<>>

HistoryUnchanged ==
    /\ staged = pre.staged
    /\ commits = pre.commits
    /\ pushed = pre.pushed

\* C3, as stated: with an author variable empty, save fails with the
\* validation error and commits and pushes nothing.
C3_EmptyAuthorValidationError ==
    (last.cmd = "save" /\ EmptyAuthor)
    => /\ last.err = ErrAuthor
       /\ last.exit = 1
       /\ HistoryUnchanged

\* C3, amended: with an author variable empty, save fails and commits and
\* pushes nothing; the error is the validation error when the repository
\* exists, and the error of opening it when it does not.
C3_EmptyAuthorNothingSaved ==
    (last.cmd = "save" /\ EmptyAuthor)
    => /\ last.err = (IF last.path \in pre.bare THEN ErrAuthor
                      ELSE ErrRepositoryNotExists)
       /\ last.exit = 1
       /\ HistoryUnchanged

\* save was refused for the e-mail alone, with a path staged.
C3_Witness ==
    /\ last.cmd = "save"
    /\ last.author.name # <<>>
    /\ last.author.email = <<>>
    /\ last.err = ErrAuthor
    /\ staged[last.path] # {}

\* C4: pull, add, save and status given the name of a repository that has no
\* <name>.git directory fail with the repository-not-found error and leave
\* the base directory and the working directory as they were.
C4_MissingRepoNoMutation ==
    ( /\ OpensRepo
      /\ last.arg # <<>>
      /\ RepoPathOf(last.arg) \notin pre.bare )
    => /\ last.err = ErrRepositoryNotExists
       /\ last.exit # 0
       /\ last.errTo # "none"
       /\ Disk = pre

\* save was given init's derived name verbatim while repositories exist.
C4_Witness ==
    /\ last.cmd = "save"
    /\ HasSuffix(last.arg, GitSuffix)
    /\ last.err = ErrRepositoryNotExists
    /\ bare # {}
    /\ \E p \in RepoPaths : staged[p] # {}

\* C5: every subcommand exits 1, its error printed to standard output, when
\* its operation met an error, and exits 0 only when its operation was
\* carried out with none.
C5_ExitStatus ==
    last.cmd # "none"
    => /\ last.err # OK => (last.exit = 1 /\ last.errTo = "stdout")
       /\ last.exit = 0 => (last.dispatched /\ last.err = OK)
       /\ last.exit \in {0, 1}

\* C6: add given a file that is not inside the working directory fails and
\* stages nothing.
C6_OutsideFileFails ==
    (last.cmd = "add" /\ ~last.inside)
    => /\ last.err # OK
       /\ staged = pre.staged

\* C7: add given a file inside the working directory, in a repository that
\* exists, stages exactly the file's path relative to the working-directory
\* root, which begins with no separator.
C7_StagesRelativePath ==
    (last.cmd = "add" /\ last.inside /\ last.path \in pre.bare)
    => /\ last.err = OK
       /\ last.addPath = last.rel
       /\ last.addPath # <<>> /\ last.addPath[1] # Sep
       /\ staged = [pre.staged EXCEPT ![last.path] = @ \cup {last.rel}]

\* add staged a file that lies in a subdirectory of the working directory.
C7_Witness ==
    /\ last.cmd = "add"
    /\ last.inside
    /\ last.exit = 0
    /\ \E i \in 1..Len(last.rel) : last.rel[i] = Sep
    /\ last.rel \in staged[last.path]
    /\ last.rel \notin pre.staged[last.path]

GitEntries == SelectSeq(ReadDir, LAMBDA n : HasSuffix(n, GitSuffix))

\* C8, as stated: status given no repo name goes through the *.git entries of
\* the base directory, each once, in reading order, under the entry's name
\* without ".git".
C8_EveryGitEntryOnce ==
    (last.cmd = "status" /\ last.arg = <<>> /\ last.err # ErrReadDir)
    => last.names = [i \in 1..Len(GitEntries) |->
                       TrimSuffix(GitEntries[i], GitSuffix)]

\* C8, amended: status given no repo name goes through the entries of the
\* base directory, whatever their names, in reading order, each under its
\* name with a trailing ".git" removed, as far as the first one that fails:
\* through all of them when none fails, and no further than the failing one
\* otherwise.
C8_EntriesUntilFailure ==
    (last.cmd = "status" /\ last.arg = <<>> /\ last.err # ErrReadDir)
    => /\ IsPrefixOf(last.names, EntryNames)
       /\ \A i \in 1..(Len(last.names) - 1) : RepoPathOf(last.names[i]) \in bare
       /\ last.err = OK => last.names = EntryNames
       /\ last.err # OK => last.names # <<>>
       /\ last.err = ErrRepositoryNotExists
            => RepoPathOf(last.names[Len(last.names)]) \notin bare

\* status went through the same repository twice: the base directory holds an
\* entry with the ".git" suffix and one without it.
C8_Witness ==
    /\ last.cmd = "status"
    /\ last.arg = <<>>
    /\ last.err = OK
    /\ \E i, j \in 1..Len(last.names) : i < j /\ last.names[i] = last.names[j]

\* line is name without its trailing extension: name itself when it holds no
\* dot, otherwise name up to its last dot.
IsNameWithoutExt(line, name) ==
    /\ IsPrefixOf(line, name)
    /\ LET rest == SubSeq(name, Len(line) + 1, Len(name))
       IN  IF HasDot(name)
           THEN rest # <<>> /\ rest[1] = Dot /\ ~HasDot(Tail(rest))
           ELSE rest = <<>>

\* C9: list with the verbose flag fails with the not-implemented error
\* whatever the base directory holds; without it, it prints one line per
\* entry of the base directory, in reading order, the entry's name without
\* its trailing extension.
C9_List ==
    last.cmd = "list"
    => IF last.arg # <<>>
       THEN last.err = ErrNotImplemented /\ last.exit = 1 /\ last.out = <<>>
       ELSE /\ Len(last.out) = Cardinality(bare)
            /\ Len(last.out) = Len(ReadDir)
            /\ \A i \in 1..Len(ReadDir) : IsNameWithoutExt(last.out[i], ReadDir[i])
            /\ baseExists => last.err = OK

\* list printed three lines, one of them for a name with two dots.
C9_Witness ==
    /\ last.cmd = "list"
    /\ last.arg = <<>>
    /\ Len(last.out) = 3
    /\ \E i \in 1..3 : HasDot(last.out[i])

SaveSteps == <<"open", "worktree", "author", "commit", "auth", "push">>

\* C10: a command returns the error of its first failing step and runs no
\* later step, and what the earlier steps did stays.  save runs open,
\* author, commit, credential, push in that order: a failure before the
\* commit leaves the history as it was, a failure of the credential or of
\* the push leaves the commit in the local repository and the remote as it
\* was.  status over several repos ends at the first repo that fails.  init
\* keeps the cloned repository when its checkout fails.
C10_FirstErrorAborts ==
    /\ last.cmd = "save"
       => /\ IsPrefixOf(last.steps, SaveSteps)
          /\ (last.err = OK) => last.steps = SaveSteps
          /\ last.err \in {ErrRepositoryNotExists, ErrAuthor, ErrCommit}
               => /\ HistoryUnchanged
                  /\ last.steps[Len(last.steps)] \in {"open", "author", "commit"}
          /\ last.err \in {ErrAgent, ErrPush}
               => /\ commits = [pre.commits EXCEPT ![last.path] = @ + 1]
                  /\ staged = [pre.staged EXCEPT ![last.path] = {}]
                  /\ pushed = pre.pushed
                  /\ last.exit = 1
          /\ last.err = ErrAgent => last.steps = SubSeq(SaveSteps, 1, 5)
          /\ last.err = OK
               => /\ commits = [pre.commits EXCEPT ![last.path] = @ + 1]
                  /\ pushed = [pre.pushed EXCEPT ![last.path] = commits[last.path]]
    /\ (last.cmd = "status" /\ last.variant = "main.go" /\ last.err # OK
          /\ last.err # ErrReadDir /\ last.arg = <<>>)
       => /\ IsPrefixOf(last.names, EntryNames)
          /\ \A i \in 1..(Len(last.names) - 1) :
                RepoPathOf(last.names[i]) \in bare
          /\ last.exit = 1
    /\ (last.cmd = "init" /\ last.err = ErrCheckout)
       => /\ last.path \in bare
          /\ last.path \notin pre.bare
          /\ wtRepo = pre.wtRepo

\* The push failed after the commit was made: the commit is in the local
\* repository and not on the remote.
C10_Witness ==
    /\ last.cmd = "save"
    /\ last.err = ErrPush
    /\ commits[last.path] = pre.commits[last.path] + 1
    /\ pushed[last.path] < commits[last.path]

====
